---- MODULE Spec2Model ----
(***************************************************************************)
(* Model of the recursive-descent parser of parse.go.  The parser pulls    *)
(* tokens from a Scanner through the fields typ, tok, err and the step     *)
(* scan(), and builds one Expr per parseExpr() call.  Strings are          *)
(* sequences of characters; a nil Expr is the record Nil.                  *)
(***************************************************************************)
EXTENDS Integers, Sequences, FiniteSets, TLC

\* Longest token stream among the unrestricted inputs.
MaxLen == 4
\* Most arguments of a call, most sub-expressions of a list and most
\* statements of a script among the well-formed inputs.
MaxArgs == 2
MaxList == 2
MaxStmts == 2
\* Longest string given to extractNums.
MaxStr == 4
\* Longest token stream among the unrestricted inputs of the step-wise
\* specification.
MaxStepLen == 3

----------------------------------------------------------------------------
\* Token categories (type TokenType of the scanner).
TokenEOF == "TokenEOF"
TokenSemicolon == "TokenSemicolon"
TokenIdent == "TokenIdent"
TokenColon == "TokenColon"
TokenLBraces == "TokenLBraces"
TokenRBraces == "TokenRBraces"
TokenPrefix == "TokenPrefix"
TokenCommand == "TokenCommand"

\* The strings the parser compares token text against.
strSet == <<"s", "e", "t">>
strMap == <<"m", "a", "p">>
strCmd == <<"c", "m", "d">>
strNL == <<"\n">>

Token(t, k) == [typ |-> t, tok |-> k]

\* The tokens the input streams are drawn from.
Alphabet ==
    { Token(TokenIdent, strSet), Token(TokenIdent, strMap),
      Token(TokenIdent, strCmd), Token(TokenIdent, <<"a">>),
      Token(TokenIdent, <<"b">>),
      Token(TokenSemicolon, <<";">>), Token(TokenSemicolon, strNL),
      Token(TokenColon, <<":">>), Token(TokenLBraces, <<"{", "{">>),
      Token(TokenRBraces, <<"}", "}">>), Token(TokenPrefix, <<"$">>),
      Token(TokenCommand, <<"x">>) }

----------------------------------------------------------------------------
\* Scanner: a one-token look-ahead cursor over the token stream buf.
\* unterminated says that the text after the last token of buf is an
\* unterminated command or brace block, so that scanning past the last token
\* records the sticky lexical error and forces end of input.

\* The text the scanner shows at end of input.
EOFText == <<>>

newScanner(buf, unterminated) ==
    [buf |-> buf, unterminated |-> unterminated, off |-> 0, err |-> FALSE]

typ(s) == IF s.off > Len(s.buf) THEN TokenEOF ELSE s.buf[s.off].typ

tok(s) == IF s.off > Len(s.buf) THEN EOFText ELSE s.buf[s.off].tok

\* scan() advances the cursor; nothing changes once end of input is reached.
scan(s) ==
    IF s.off > Len(s.buf)
    THEN s
    ELSE [s EXCEPT !.off = @ + 1,
                   !.err = @ \/ (s.off = Len(s.buf) /\ s.unterminated)]

\* The boolean scan() returns: whether input remains.
scanMore(s) == typ(scan(s)) # TokenEOF

----------------------------------------------------------------------------
\* Expr variants.
Nil == [kind |-> "nil"]
SetExpr(opt, val) == [kind |-> "SetExpr", opt |-> opt, val |-> val]
MapExpr(keys, expr) == [kind |-> "MapExpr", keys |-> keys, expr |-> expr]
CmdExpr(name, expr) == [kind |-> "CmdExpr", name |-> name, expr |-> expr]
CallExpr(name, args) == [kind |-> "CallExpr", name |-> name, args |-> args]
ExecExpr(pref, expr) == [kind |-> "ExecExpr", pref |-> pref, expr |-> expr]
ListExpr(exprs) == [kind |-> "ListExpr", exprs |-> exprs]

\* What a parseExpr() call leaves behind: its return value, the scanner and
\* the parser's err field (TRUE when non-nil).
Ret(result, s, e) == [result |-> result, scanner |-> s, err |-> e]

RECURSIVE parseExpr(_, _)

\* parseSet without the final scan past the semicolon.
parseSetKeepsSemicolon(s, e) ==
    LET s1 == scan(s)
        opt == tok(s1)
        s2 == scan(s1)
        val == IF typ(s2) # TokenSemicolon THEN tok(s2) ELSE <<>>
        s3 == IF typ(s2) # TokenSemicolon THEN scan(s2) ELSE s2
    IN  Ret(SetExpr(opt, val), s3, e)

\* case "set"
parseSet(s, e) ==
    LET s1 == scan(s)
        opt == tok(s1)
        s2 == scan(s1)
        val == IF typ(s2) # TokenSemicolon THEN tok(s2) ELSE <<>>
        s3 == IF typ(s2) # TokenSemicolon THEN scan(s2) ELSE s2
        s4 == scan(s3)
    IN  Ret(SetExpr(opt, val), s4, e)

\* case "map"
parseMap(s, e) ==
    LET s1 == scan(s)
        keys == tok(s1)
        s2 == scan(s1)
        r == parseExpr(s2, e)
    IN  Ret(MapExpr(keys, r.result), r.scanner, r.err)

\* case "cmd"
parseCmd(s, e) ==
    LET s1 == scan(s)
        name == tok(s1)
        s2 == scan(s1)
        r == parseExpr(s2, e)
    IN  Ret(CmdExpr(name, r.result), r.scanner, r.err)

\* callArgs putting each argument in front of the earlier ones.
RECURSIVE callArgsPrepending(_, _)
callArgsPrepending(s, args) ==
    LET s1 == scan(s)
    IN  IF scanMore(s) /\ typ(s1) # TokenSemicolon
        THEN callArgsPrepending(s1, <<tok(s1)>> \o args)
        ELSE [scanner |-> s1, args |-> args]

\* for s.scan() && s.typ != TokenSemicolon { args = append(args, s.tok) }
RECURSIVE callArgs(_, _)
callArgs(s, args) ==
    LET s1 == scan(s)
    IN  IF scanMore(s) /\ typ(s1) # TokenSemicolon
        THEN callArgs(s1, Append(args, tok(s1)))
        ELSE [scanner |-> s1, args |-> args]

\* default case of the identifier switch: a call
parseCall(s, e) ==
    LET name == tok(s)
        l == callArgs(s, <<>>)
        s1 == scan(l.scanner)
    IN  IF s1.err
        THEN Ret(Nil, s1, TRUE)
        ELSE Ret(CallExpr(name, l.args), s1, e)

\* listBraces ending the list on a nil sub-result instead of failing.
RECURSIVE listBracesBreakOnNil(_, _, _)
listBracesBreakOnNil(s, e, exprs) ==
    LET r == parseExpr(s, e)
    IN  IF r.result = Nil
        THEN [ok |-> TRUE, scanner |-> r.scanner, err |-> r.err,
              exprs |-> exprs]
        ELSE IF typ(r.scanner) = TokenRBraces
             THEN [ok |-> TRUE, scanner |-> r.scanner, err |-> r.err,
                   exprs |-> Append(exprs, r.result)]
             ELSE listBracesBreakOnNil(r.scanner, r.err,
                                       Append(exprs, r.result))

\* the loop of the brace form of a list; the scanner is left where the loop
\* stopped
RECURSIVE listBraces(_, _, _)
listBraces(s, e, exprs) ==
    LET r == parseExpr(s, e)
    IN  IF r.result = Nil
        THEN [ok |-> FALSE, scanner |-> r.scanner, err |-> r.err,
              exprs |-> exprs]
        ELSE IF typ(r.scanner) = TokenRBraces
             THEN [ok |-> TRUE, scanner |-> r.scanner, err |-> r.err,
                   exprs |-> Append(exprs, r.result)]
             ELSE listBraces(r.scanner, r.err, Append(exprs, r.result))

\* the loop of the line form of a list
RECURSIVE listLine(_, _, _)
listLine(s, e, exprs) ==
    LET r == parseExpr(s, e)
    IN  IF r.result = Nil
        THEN [ok |-> FALSE, scanner |-> r.scanner, err |-> r.err,
              exprs |-> exprs]
        ELSE IF tok(r.scanner) = strNL
             THEN [ok |-> TRUE, scanner |-> r.scanner, err |-> r.err,
                   exprs |-> Append(exprs, r.result)]
             ELSE listLine(r.scanner, r.err, Append(exprs, r.result))

\* parseList without the final scan past the list's terminator.
parseListKeepsTerminator(s, e) ==
    LET s1 == scan(s)
        l == IF typ(s1) = TokenLBraces
             THEN listBraces(scan(s1), e, <<>>)
             ELSE listLine(s1, e, <<>>)
        s2 == IF typ(s1) = TokenLBraces THEN scan(l.scanner) ELSE l.scanner
    IN  IF ~l.ok
        THEN Ret(Nil, l.scanner, l.err)
        ELSE Ret(ListExpr(l.exprs), s2, l.err)

\* case TokenColon
parseList(s, e) ==
    LET s1 == scan(s)
        l == IF typ(s1) = TokenLBraces
             THEN listBraces(scan(s1), e, <<>>)
             ELSE listLine(s1, e, <<>>)
        s2 == IF typ(s1) = TokenLBraces THEN scan(l.scanner) ELSE l.scanner
    IN  IF ~l.ok
        THEN Ret(Nil, l.scanner, l.err)
        ELSE Ret(ListExpr(l.exprs), scan(s2), l.err)

\* parseExec with one scan instead of two behind the command text.
parseExecOneScan(s, e) ==
    LET pref == tok(s)
        s1 == scan(s)
        expr == IF typ(s1) = TokenLBraces THEN tok(scan(s1))
                ELSE IF typ(s1) = TokenCommand THEN tok(s1)
                ELSE <<>>
        s2 == IF typ(s1) = TokenLBraces THEN scan(scan(s1)) ELSE s1
        s3 == scan(s2)
    IN  IF s3.err
        THEN Ret(Nil, s3, TRUE)
        ELSE Ret(ExecExpr(pref, expr), s3, e)

\* case TokenPrefix
parseExec(s, e) ==
    LET pref == tok(s)
        s1 == scan(s)
        expr == IF typ(s1) = TokenLBraces THEN tok(scan(s1))
                ELSE IF typ(s1) = TokenCommand THEN tok(s1)
                ELSE <<>>
        s2 == IF typ(s1) = TokenLBraces THEN scan(scan(s1)) ELSE s1
        s3 == scan(scan(s2))
    IN  IF s3.err
        THEN Ret(Nil, s3, TRUE)
        ELSE Ret(ExecExpr(pref, expr), s3, e)

\* case TokenSemicolon
parseSemicolon(s, e) == Ret(Nil, scan(s), e)

\* default case of the token switch
parseOther(s, e) == Ret(Nil, s, e)

parseExpr(s, e) ==
    CASE typ(s) = TokenEOF -> Ret(Nil, s, e)
      [] typ(s) = TokenSemicolon -> parseSemicolon(s, e)
      [] typ(s) = TokenIdent ->
            CASE tok(s) = strSet -> parseSet(s, e)
              [] tok(s) = strMap -> parseMap(s, e)
              [] tok(s) = strCmd -> parseCmd(s, e)
              [] OTHER -> parseCall(s, e)
      [] typ(s) = TokenColon -> parseList(s, e)
      [] typ(s) = TokenPrefix -> parseExec(s, e)
      [] OTHER -> parseOther(s, e)

----------------------------------------------------------------------------
\* String() of the Expr variants, as fmt.Sprintf and append build it.

RECURSIVE joinSpace(_)
joinSpace(ss) ==
    IF ss = <<>> THEN <<>>
    ELSE IF Len(ss) = 1 THEN ss[1]
    ELSE ss[1] \o <<" ">> \o joinSpace(Tail(ss))

\* %s of a []string
fmtStrings(ss) == <<"[">> \o joinSpace(ss) \o <<"]">>

\* %s of a nil Expr
fmtNil == <<"%", "!", "s", "(", "<", "n", "i", "l", ">", ")">>

RECURSIVE String(_)
RECURSIVE listString(_)

\* the loop of ListExpr.String
listString(exprs) ==
    IF exprs = <<>> THEN <<>>
    ELSE String(Head(exprs)) \o <<";", " ">> \o listString(Tail(exprs))

String(e) ==
    CASE e.kind = "nil" -> fmtNil
      [] e.kind = "SetExpr" -> strSet \o <<" ">> \o e.opt \o <<" ">> \o e.val
      [] e.kind = "MapExpr" ->
            strMap \o <<" ">> \o e.keys \o <<" ">> \o String(e.expr)
      [] e.kind = "CmdExpr" ->
            strCmd \o <<" ">> \o e.name \o <<" ">> \o String(e.expr)
      [] e.kind = "CallExpr" ->
            e.name \o <<" ", "-", "-", " ">> \o fmtStrings(e.args)
      [] e.kind = "ExecExpr" -> e.pref \o <<" ">> \o e.expr
      [] e.kind = "ListExpr" ->
            <<":", "{", "{", " ">> \o listString(e.exprs) \o <<"}", "}">>

----------------------------------------------------------------------------
\* The scanner's lexing rules: the token stream of a text.  A lexical
\* inconsistency ends the stream where it is met and leaves the scanner
\* error to be recorded there.
Space == {" ", "\t"}
PrefixChars == {"$", "!", "&", "/", "?"}

IsAt(cs, i, c) == i <= Len(cs) /\ cs[i] = c

\* The least offset of hits, or Len(cs) + 1 when there is none.
Least(cs, hits) ==
    IF hits = {} THEN Len(cs) + 1
    ELSE CHOOSE j \in hits : \A k \in hits : j <= k

\* The first offset from i on whose character is in S / is not in S / where
\* a closing `}}` starts.
firstIn(cs, i, S) == Least(cs, { j \in i..Len(cs) : cs[j] \in S })
firstNotIn(cs, i, S) == Least(cs, { j \in i..Len(cs) : cs[j] \notin S })
firstClose(cs, i) ==
    Least(cs, { j \in i..Len(cs) : cs[j] = "}" /\ IsAt(cs, j + 1, "}") })

RECURSIVE trimRight(_)
trimRight(cs) ==
    IF cs # <<>> /\ cs[Len(cs)] \in Space
    THEN trimRight(SubSeq(cs, 1, Len(cs) - 1))
    ELSE cs

Lexed(buf, unterminated) == [buf |-> buf, unterminated |-> unterminated]

RECURSIVE lex(_, _, _)

\* behind a prefix: a brace block or raw text up to the end of the line
lexCommand(cs, i, out) ==
    LET k == firstNotIn(cs, i, Space)
    IN  IF k > Len(cs) THEN Lexed(out, TRUE)
        ELSE IF cs[k] = "{" /\ IsAt(cs, k + 1, "{")
        THEN LET m == firstClose(cs, k + 2)
                 b == firstNotIn(cs, k + 2, Space)
             IN  IF m > Len(cs)
                 THEN Lexed(Append(out, Token(TokenLBraces, <<"{", "{">>)),
                            TRUE)
                 ELSE lex(cs, m + 2,
                          out \o << Token(TokenLBraces, <<"{", "{">>),
                                    Token(TokenCommand,
                                          trimRight(SubSeq(cs, b, m - 1))),
                                    Token(TokenRBraces, <<"}", "}">>) >>)
        ELSE LET m == firstIn(cs, k, {"\n"})
             IN  IF m > Len(cs) THEN Lexed(out, TRUE)
                 ELSE lex(cs, m + 1,
                          out \o << Token(TokenCommand, SubSeq(cs, k, m - 1)),
                                    Token(TokenSemicolon, strNL) >>)

lex(cs, i, out) ==
    IF i > Len(cs) THEN Lexed(out, FALSE)
    ELSE CASE cs[i] \in Space \cup {"\n"} -> lex(cs, i + 1, out)
           [] cs[i] = ";" ->
                 lex(cs, i + 1, Append(out, Token(TokenSemicolon, <<";">>)))
           [] cs[i] = ":" ->
                 lex(cs, i + 1, Append(out, Token(TokenColon, <<":">>)))
           [] cs[i] = "{" ->
                 IF IsAt(cs, i + 1, "{")
                 THEN lex(cs, i + 2,
                          Append(out, Token(TokenLBraces, <<"{", "{">>)))
                 ELSE Lexed(out, TRUE)
           [] cs[i] = "}" ->
                 IF IsAt(cs, i + 1, "}")
                 THEN lex(cs, i + 2,
                          Append(out, Token(TokenRBraces, <<"}", "}">>)))
                 ELSE Lexed(out, TRUE)
           [] cs[i] \in PrefixChars ->
                 lexCommand(cs, i + 1,
                            Append(out, Token(TokenPrefix, <<cs[i]>>)))
           [] OTHER ->
                 LET j == firstIn(cs, i, Space \cup {";", "{", "}", "\n"})
                 IN  lex(cs, j,
                         Append(out, Token(TokenIdent, SubSeq(cs, i, j - 1))))

\* A parser on a text: newParser(strings.NewReader(text)).
parserOn(cs) ==
    LET l == lex(cs, 1, <<>>)
    IN  scan(newScanner(l.buf, l.unterminated))

----------------------------------------------------------------------------
\* extractNums: the numbers of a string and the rest of it.
Digits == {"0", "7"}
Letters == {"a", "b"}

\* unicode.IsDigit
IsDigit(c) == c \in Digits

DigitValue(c) == IF c = "7" THEN 7 ELSE 0

\* strconv.Atoi of a run of digits
RECURSIVE Atoi(_)
Atoi(cs) ==
    IF cs = <<>> THEN 0
    ELSE 10 * Atoi(SubSeq(cs, 1, Len(cs) - 1)) + DigitValue(cs[Len(cs)])

\* The range loop of extractNums from the character at offset i on (offsets
\* count from 1, so the last one is Len(cs)), with the loop's variables.
RECURSIVE extractLoop(_, _, _, _, _, _)
extractLoop(cs, i, buf, digit, ns, rs) ==
    IF i > Len(cs) THEN [nums |-> ns, rest |-> rs]
    ELSE IF IsDigit(cs[i]) = digit /\ i # Len(cs)
    THEN extractLoop(cs, i + 1, Append(buf, cs[i]), digit, ns, rs)
    ELSE LET b == IF IsDigit(cs[i]) = digit THEN Append(buf, cs[i]) ELSE buf
         IN  extractLoop(cs, i + 1, <<cs[i]>>, ~digit,
                         IF digit THEN Append(ns, Atoi(b)) ELSE ns,
                         IF digit THEN rs ELSE Append(rs, b))

extractNums(cs) ==
    LET digit == cs # <<>> /\ IsDigit(cs[1])
        l == extractLoop(cs, 1, <<>>, digit, <<>>, <<>>)
    IN  [nums |-> l.nums, rest |-> l.rest, numFirst |-> digit]

----------------------------------------------------------------------------
\* The parser and the record of its last call.
VARIABLES scanner,  \* Parser.scanner
          expr,     \* Parser.expr
          err,      \* Parser.err is non-nil
          op,       \* the last call: "new", "parseExpr" or "parse"
          pre,      \* the scanner when the last call started
          preErr,   \* Parser.err when the last call started
          ret,      \* what the last call returned
          str,      \* the argument of extractNums
          nums,     \* the results of the last extractNums call
          rest,
          numFirst,
          run       \* the parseExpr() call in progress, step by step

vars ==
    <<scanner, expr, err, op, pre, preErr, ret, str, nums, rest, numFirst,
      run>>

\* No call is in progress.
Idle == [active |-> FALSE]

\* No extractNums call was made.
noNums == str = <<>> /\ nums = <<>> /\ rest = <<>> /\ numFirst = FALSE

\* Well-formed inputs: scripts of statements written by the grammar
\*   Expr = SetExpr | MapExpr | CmdExpr | CallExpr | ExecExpr | ListExpr.
tSet == Token(TokenIdent, strSet)
tMap == Token(TokenIdent, strMap)
tCmd == Token(TokenIdent, strCmd)
tSemi == Token(TokenSemicolon, <<";">>)
tNL == Token(TokenSemicolon, strNL)
tColon == Token(TokenColon, <<":">>)
tLB == Token(TokenLBraces, <<"{", "{">>)
tRB == Token(TokenRBraces, <<"}", "}">>)
tPrefix == Token(TokenPrefix, <<"$">>)
tCommand == Token(TokenCommand, <<"x">>)
Words == {Token(TokenIdent, <<"a">>), Token(TokenIdent, <<"b">>)}

\* Sequences of at most n elements of S, and the concatenation of a sequence
\* of token streams.
SeqsUpTo(S, n) == UNION { [1..k -> S] : k \in 0..n }

RECURSIVE Flatten(_)
Flatten(ss) == IF ss = <<>> THEN <<>> ELSE Head(ss) \o Flatten(Tail(ss))

\* SetExpr = 'set' <opt> <val>? ';'
SetStmts ==
    { <<tSet, Token(TokenIdent, <<"a">>)>> \o v \o <<tSemi>> :
        v \in SeqsUpTo(Words, 1) }

\* CallExpr = <name> <args>* ';'
CallStmts ==
    { <<Token(TokenIdent, <<"a">>)>> \o args \o <<tSemi>> :
        args \in SeqsUpTo(Words, MaxArgs) }

\* ExecExpr = Prefix <text> '\n' | Prefix '{{' <text> '}}' ';'
ExecStmts ==
    { <<tPrefix, tCommand, tNL>>, <<tPrefix, tLB, tCommand, tRB, tSemi>> }

BasicStmts == SetStmts \cup CallStmts \cup ExecStmts

\* The statements that lists and the rest of a script are made of.
ShortStmts ==
    { <<tSet, Token(TokenIdent, <<"a">>), tSemi>>,
      <<tSet, Token(TokenIdent, <<"a">>), Token(TokenIdent, <<"b">>), tSemi>>,
      <<Token(TokenIdent, <<"a">>), Token(TokenIdent, <<"b">>), tSemi>> }
    \cup ExecStmts

\* MapExpr = 'map' <keys> Expr, CmdExpr = 'cmd' <name> Expr
BindingStmts ==
    { <<k, Token(TokenIdent, <<"a">>)>> \o body :
        k \in {tMap, tCmd}, body \in BasicStmts }

\* The brace form of a list with no sub-expression.
EmptyList == <<tColon, tLB, tRB, tSemi>>

\* ListExpr = ':' Expr '\n' | ':' '{{' Expr* '}}' ';'
ListStmts ==
    { <<tColon>> \o body \o <<tNL>> : body \in BasicStmts }
    \cup { <<tColon, tLB>> \o Flatten(body) \o <<tRB, tSemi>> :
             body \in SeqsUpTo(ShortStmts \cup {EmptyList}, MaxList) }

Stmts == BasicStmts \cup BindingStmts \cup ListStmts

\* A statement of any form followed by up to MaxStmts - 1 short ones.
Scripts ==
    { first \o Flatten(more) :
        first \in Stmts, more \in SeqsUpTo(ShortStmts, MaxStmts - 1) }

\* Token streams of at most n tokens.
Streams(n) == UNION { [1..k -> Alphabet] : k \in 0..n }

\* The scanner can only run into an unterminated block right after a prefix
\* or after the opening braces that follow a prefix.
CanBeUnterminated(buf) ==
    LET n == Len(buf)
    IN  \/ n >= 1 /\ buf[n].typ = TokenPrefix
        \/ n >= 2 /\ buf[n].typ = TokenLBraces /\ buf[n - 1].typ = TokenPrefix

\* newParser: a scanner on the input, advanced to its first token.
newParser(buf, unterminated) ==
    /\ scanner = scan(newScanner(buf, unterminated))
    /\ expr = Nil
    /\ err = FALSE
    /\ op = "new"
    /\ pre = scanner
    /\ preErr = FALSE
    /\ ret = Nil

Init ==
    \E buf \in Streams(MaxLen) \cup Scripts, unterminated \in BOOLEAN :
        /\ unterminated => CanBeUnterminated(buf)
        /\ newParser(buf, unterminated)
        /\ noNums
        /\ run = Idle

\* A call of p.parseExpr() by the owner of the parser.
ParseExpr ==
    LET r == parseExpr(scanner, err)
    IN  /\ scanner' = r.scanner
        /\ err' = r.err
        /\ expr' = expr
        /\ op' = "parseExpr"
        /\ pre' = scanner
        /\ preErr' = err
        /\ ret' = r.result
        /\ UNCHANGED <<str, nums, rest, numFirst, run>>

\* A call of p.parse().
Parse ==
    LET r == parseExpr(scanner, err)
    IN  /\ scanner' = r.scanner
        /\ err' = r.err
        /\ expr' = r.result
        /\ op' = "parse"
        /\ pre' = scanner
        /\ preErr' = err
        /\ ret' = (r.result # Nil)
        /\ UNCHANGED <<str, nums, rest, numFirst, run>>

Next == ParseExpr \/ Parse

Spec == Init /\ [][Next]_vars

\* The strings extractNums is called on, and a call of it.
Strings == UNION { [1..k -> Digits \cup Letters] : k \in 0..MaxStr }

InitNums ==
    /\ newParser(<<>>, FALSE)
    /\ str \in Strings
    /\ nums = <<>> /\ rest = <<>> /\ numFirst = FALSE
    /\ run = Idle

ExtractNums ==
    LET r == extractNums(str)
    IN  /\ op' = "extractNums"
        /\ nums' = r.nums
        /\ rest' = r.rest
        /\ numFirst' = r.numFirst
        /\ UNCHANGED <<scanner, expr, err, pre, preErr, ret, str, run>>

NextNums == ExtractNums

SpecNums == InitNums /\ [][NextNums]_vars

----------------------------------------------------------------------------
\* parseExpr() step by step: run.stack holds the calls of parseExpr that are
\* in progress, the innermost last.  A frame is a call about to dispatch on
\* the current token ("expr"), a map or cmd waiting for its body, a call that
\* is in its argument loop ("args"), or a list in one of its loops ("braces",
\* "line") waiting for its next sub-expression, with the cursor at which this
\* iteration began (at).  run.s and run.e are the scanner and the parser's
\* error, run.result the value of the last return.
ExprFrame == [kind |-> "expr"]

Top(r) == r.stack[Len(r.stack)]
Pop(stack) == SubSeq(stack, 1, Len(stack) - 1)

\* The innermost call returns what res says.
finish(r, res) ==
    [r EXCEPT !.stack = Pop(@), !.s = res.scanner, !.e = res.err,
              !.result = res.result]

\* The innermost call goes on as frame f and calls parseExpr with scanner s.
nest(r, f, s) ==
    [r EXCEPT !.stack = Pop(@) \o <<f, ExprFrame>>, !.s = s]

\* switch s.typ
dispatch(r) ==
    LET s == r.s
    IN  CASE typ(s) = TokenEOF -> finish(r, Ret(Nil, s, r.e))
          [] typ(s) = TokenSemicolon -> finish(r, parseSemicolon(s, r.e))
          [] typ(s) = TokenIdent ->
                CASE tok(s) = strSet -> finish(r, parseSet(s, r.e))
                  [] tok(s) = strMap ->
                        nest(r, [kind |-> "map", keys |-> tok(scan(s))],
                             scan(scan(s)))
                  [] tok(s) = strCmd ->
                        nest(r, [kind |-> "cmd", name |-> tok(scan(s))],
                             scan(scan(s)))
                  [] OTHER ->
                        [r EXCEPT !.stack =
                            Pop(@) \o <<[kind |-> "args", name |-> tok(s),
                                         args |-> <<>>]>>]
          [] typ(s) = TokenColon ->
                IF typ(scan(s)) = TokenLBraces
                THEN nest(r, [kind |-> "braces", exprs |-> <<>>,
                              at |-> scan(scan(s)).off],
                          scan(scan(s)))
                ELSE nest(r, [kind |-> "line", exprs |-> <<>>,
                              at |-> scan(s).off],
                          scan(s))
          [] typ(s) = TokenPrefix -> finish(r, parseExec(s, r.e))
          [] OTHER -> finish(r, parseOther(s, r.e))

\* One test of the condition of the argument loop, with the body of the loop
\* or with what follows the loop.
argStep(r) ==
    LET f == Top(r)
        s1 == scan(r.s)
        s2 == scan(s1)
    IN  IF scanMore(r.s) /\ typ(s1) # TokenSemicolon
        THEN [r EXCEPT !.stack[Len(r.stack)].args = Append(@, tok(s1)),
                       !.s = s1]
        ELSE IF s2.err
        THEN finish(r, Ret(Nil, s2, TRUE))
        ELSE finish(r, Ret(CallExpr(f.name, f.args), s2, r.e))

\* listStep going round the loop again on a nil sub-expression.
listStepContinueOnNil(r) ==
    LET f == Top(r)
        exprs == IF r.result = Nil THEN f.exprs
                 ELSE Append(f.exprs, r.result)
        more == [f EXCEPT !.exprs = exprs, !.at = r.s.off]
    IN  IF r.result = Nil
        THEN nest(r, more, r.s)
        ELSE IF f.kind = "braces"
        THEN IF typ(r.s) = TokenRBraces
             THEN finish(r, Ret(ListExpr(exprs), scan(scan(r.s)), r.e))
             ELSE nest(r, more, r.s)
        ELSE IF tok(r.s) = strNL
             THEN finish(r, Ret(ListExpr(exprs), scan(r.s), r.e))
             ELSE nest(r, more, r.s)

\* The rest of one iteration of a list loop, from the return of its
\* parseExpr() on, with what follows the loop when it ends.
listStep(r) ==
    LET f == Top(r)
        exprs == Append(f.exprs, r.result)
        more == [f EXCEPT !.exprs = exprs, !.at = r.s.off]
    IN  IF r.result = Nil
        THEN finish(r, Ret(Nil, r.s, r.e))
        ELSE IF f.kind = "braces"
        THEN IF typ(r.s) = TokenRBraces
             THEN finish(r, Ret(ListExpr(exprs), scan(scan(r.s)), r.e))
             ELSE nest(r, more, r.s)
        ELSE IF tok(r.s) = strNL
             THEN finish(r, Ret(ListExpr(exprs), scan(r.s), r.e))
             ELSE nest(r, more, r.s)

\* A map or cmd gets its body.
bindStep(r) ==
    LET f == Top(r)
    IN  finish(r, Ret(IF f.kind = "map" THEN MapExpr(f.keys, r.result)
                      ELSE CmdExpr(f.name, r.result),
                      r.s, r.e))

Running(kinds) ==
    run.active /\ run.stack # <<>> /\ Top(run).kind \in kinds

\* The owner calls p.parseExpr().
Call ==
    /\ ~run.active
    /\ run' = [active |-> TRUE, stack |-> <<ExprFrame>>, s |-> scanner,
               e |-> err, result |-> Nil]
    /\ op' = "call"
    /\ pre' = scanner
    /\ preErr' = err
    /\ UNCHANGED <<scanner, expr, err, ret, str, nums, rest, numFirst>>

inCall == <<scanner, expr, err, op, pre, preErr, ret, str, nums, rest, numFirst>>

Dispatch == Running({"expr"}) /\ run' = dispatch(run) /\ UNCHANGED inCall

ArgStep == Running({"args"}) /\ run' = argStep(run) /\ UNCHANGED inCall

ListStep ==
    Running({"braces", "line"}) /\ run' = listStep(run) /\ UNCHANGED inCall

BindStep ==
    Running({"map", "cmd"}) /\ run' = bindStep(run) /\ UNCHANGED inCall

\* The outermost call returns to the owner.
Return ==
    /\ run.active /\ run.stack = <<>>
    /\ scanner' = run.s
    /\ err' = run.e
    /\ ret' = run.result
    /\ op' = "parseExpr"
    /\ run' = Idle
    /\ UNCHANGED <<expr, pre, preErr, str, nums, rest, numFirst>>

InitSteps ==
    \E buf \in Streams(MaxStepLen) \cup Stmts, unterminated \in BOOLEAN :
        /\ unterminated => CanBeUnterminated(buf)
        /\ newParser(buf, unterminated)
        /\ noNums
        /\ run = Idle

Step == Dispatch \/ ArgStep \/ ListStep \/ BindStep \/ Return

NextSteps == Call \/ Dispatch \/ ArgStep \/ ListStep \/ BindStep \/ Return

\* A call that was made runs on: the code between two steps never blocks.
SpecSteps == InitSteps /\ [][NextSteps]_vars /\ WF_vars(Step)

----------------------------------------------------------------------------
\* The last call was a p.parseExpr() / a p.parse() by the owner.
CalledParseExpr == op = "parseExpr"
CalledParse == op = "parse"

\* The Expr the last call produced (Nil when it produced none).
Produced == IF CalledParseExpr THEN ret ELSE IF CalledParse THEN expr ELSE Nil

\* The last call failed as seen by its caller.
Failed == (CalledParseExpr /\ ret = Nil) \/ (CalledParse /\ ret = FALSE)

\* The token is an identifier other than the three keywords.
IsName(t) == t.typ = TokenIdent /\ t.tok \notin {strSet, strMap, strCmd}

\* s stands on `map` or `cmd`, the next token is a name and the last token of
\* the input, and the input ends cleanly there: the nested body is missing.
TruncatedBinding(s) ==
    /\ typ(s) = TokenIdent
    /\ tok(s) \in {strMap, strCmd}
    /\ s.off + 1 = Len(s.buf)
    /\ IsName(s.buf[s.off + 1])
    /\ ~s.unterminated

\* C1: parse() on `map <keys>` or `cmd <name>` directly followed by
\* EndOfInput returns false and records an error on the parser.
C1_TruncatedBindingFails ==
    (CalledParse /\ TruncatedBinding(pre)) => (ret = FALSE /\ err)

\* No MapExpr or CmdExpr anywhere in e has a nil body.
RECURSIVE Complete(_)
Complete(e) ==
    CASE e.kind \in {"MapExpr", "CmdExpr"} ->
            e.expr # Nil /\ Complete(e.expr)
      [] e.kind = "ListExpr" ->
            \A i \in 1..Len(e.exprs) : e.exprs[i] # Nil /\ Complete(e.exprs[i])
      [] OTHER -> TRUE

\* C2: every non-nil Expr returned by parseExpr() or retained by parse() is
\* complete at every depth: no map or cmd node has a nil body.
C2_NoNilBody ==
    /\ Produced # Nil => Complete(Produced)
    /\ expr # Nil => Complete(expr)

\* C3: parseExpr() called on a token that starts no alternative (opening
\* braces, closing braces, command text) returns nil and sets the parser's
\* error.
C3_StrayTokenIsError ==
    (CalledParseExpr /\ typ(pre) \in {TokenLBraces, TokenRBraces, TokenCommand})
        => (ret = Nil /\ err)

\* C4: a list production that ends on a nil sub-result returns nil with the
\* parser's error set, while parseExpr() called at a clean end of input
\* returns nil with the error unset.
C4_IncompleteListDistinguishable ==
    /\ (CalledParseExpr /\ typ(pre) = TokenColon /\ ret = Nil) => err
    /\ (CalledParseExpr /\ typ(pre) = TokenEOF /\ ~pre.err /\ ~preErr)
          => (ret = Nil /\ ~err)

\* C5: when the scanner records its lexical error during a call that parses
\* a multi-token production, the call returns no Expr and the parser's error
\* is set.
C5_LexicalErrorFails ==
    (/\ CalledParseExpr \/ CalledParse
     /\ typ(pre) \in {TokenIdent, TokenColon, TokenPrefix}
     /\ ~pre.err /\ scanner.err)
        => (Failed /\ err /\ Produced = Nil)

\* Recogniser of the grammar: the offsets at which a match of the
\* nonterminal that starts at offset i of buf ends (the offset of the first
\* token behind it).
At(buf, i, t) == i <= Len(buf) /\ buf[i].typ = t
IsWord(buf, i) == At(buf, i, TokenIdent)
IsNewline(buf, i) == At(buf, i, TokenSemicolon) /\ buf[i].tok = strNL

RECURSIVE matchExpr(_, _)
RECURSIVE matchMany(_, _)

matchSet(buf, i) ==
    { j \in {i + 3, i + 4} :
        /\ IsWord(buf, i) /\ buf[i].tok = strSet
        /\ IsWord(buf, i + 1)
        /\ j = i + 4 => IsWord(buf, i + 2)
        /\ At(buf, j - 1, TokenSemicolon) }

matchCall(buf, i) ==
    { j \in (i + 2)..(Len(buf) + 1) :
        /\ i <= Len(buf) /\ IsName(buf[i])
        /\ \A k \in (i + 1)..(j - 2) : IsWord(buf, k)
        /\ At(buf, j - 1, TokenSemicolon) }

matchExec(buf, i) ==
    { j \in {i + 3} :
        At(buf, i, TokenPrefix) /\ At(buf, i + 1, TokenCommand)
        /\ IsNewline(buf, i + 2) }
    \cup { j \in {i + 5} :
        At(buf, i, TokenPrefix) /\ At(buf, i + 1, TokenLBraces)
        /\ At(buf, i + 2, TokenCommand) /\ At(buf, i + 3, TokenRBraces)
        /\ At(buf, i + 4, TokenSemicolon) }

matchBinding(buf, i) ==
    IF IsWord(buf, i) /\ buf[i].tok \in {strMap, strCmd} /\ IsWord(buf, i + 1)
    THEN matchExpr(buf, i + 2)
    ELSE {}

matchList(buf, i) ==
    IF ~At(buf, i, TokenColon) THEN {}
    ELSE { j + 1 : j \in { k \in matchExpr(buf, i + 1) : IsNewline(buf, k) } }
         \cup IF ~At(buf, i + 1, TokenLBraces) THEN {}
              ELSE { j + 2 : j \in { k \in matchMany(buf, i + 2) :
                                       /\ At(buf, k, TokenRBraces)
                                       /\ At(buf, k + 1, TokenSemicolon) } }

matchExpr(buf, i) ==
    IF i > Len(buf) THEN {}
    ELSE matchSet(buf, i) \cup matchCall(buf, i) \cup matchExec(buf, i)
         \cup matchBinding(buf, i) \cup matchList(buf, i)

matchMany(buf, i) ==
    {i} \cup UNION { matchMany(buf, j) : j \in matchExpr(buf, i) }

\* The tokens from the cursor of s to the end of the input are exactly one
\* expression of the grammar, and the input ends cleanly.
WellFormed(s) ==
    /\ ~s.unterminated /\ ~s.err
    /\ (Len(s.buf) + 1) \in matchExpr(s.buf, s.off)

\* The scanner after every leading semicolon of s is consumed.
RECURSIVE skipSemicolons(_)
skipSemicolons(s) ==
    IF typ(s) = TokenSemicolon THEN skipSemicolons(scan(s)) ELSE s

\* C6: on a semicolon parseExpr() consumes it and recurses: with leading
\* semicolons before a well-formed expression the call returns what parsing
\* that expression returns and parse() returns true; with leading semicolons
\* before EndOfInput it returns nil without an error.
C6_SemicolonRecurses ==
    (/\ CalledParseExpr \/ CalledParse
     /\ typ(pre) = TokenSemicolon /\ ~preErr)
        => LET t == skipSemicolons(pre)
               r == parseExpr(t, preErr)
           IN  /\ WellFormed(t) =>
                     /\ Produced = r.result
                     /\ CalledParse => ret = TRUE
               /\ (typ(t) = TokenEOF /\ ~t.err) => (Failed /\ ~err)

\* C7: parse() returns true on every input that is one expression of the
\* grammar, the line form of a list and the empty brace form included.
C7_GrammarAccepted ==
    (CalledParse /\ WellFormed(pre)) => ret = TRUE

\* C8: the Expr of a successful parse() of a well-formed input, printed
\* with String() and parsed again, gives an equal Expr.
C8_PrintParseRoundTrip ==
    (CalledParse /\ WellFormed(pre) /\ ret = TRUE)
        => LET r == parseExpr(parserOn(String(expr)), FALSE)
           IN  r.result # Nil /\ r.result = expr

\* The offset of the first semicolon of buf at or behind offset i
\* (Len(buf) + 1 when there is none).
FirstSemicolon(buf, i) ==
    Least(buf, { j \in i..Len(buf) : buf[j].typ = TokenSemicolon })

\* C9: on `set <opt> ;` parseExpr() returns SetExpr{opt, ""} and on
\* `set <opt> <val> ;` it returns SetExpr{opt, val}; either way the scanner
\* is left on the token right behind that semicolon and nothing else changes.
C9_SetConsumesProduction ==
    (CalledParseExpr /\ typ(pre) = TokenIdent /\ tok(pre) = strSet)
        => LET buf == pre.buf
               i == pre.off
           IN  /\ At(buf, i + 2, TokenSemicolon) =>
                     /\ ret = SetExpr(buf[i + 1].tok, <<>>)
                     /\ scanner = [pre EXCEPT !.off = i + 3]
                     /\ err = preErr
               /\ (/\ i + 2 <= Len(buf) /\ ~At(buf, i + 2, TokenSemicolon)
                   /\ At(buf, i + 3, TokenSemicolon)) =>
                     /\ ret = SetExpr(buf[i + 1].tok, buf[i + 2].tok)
                     /\ scanner = [pre EXCEPT !.off = i + 4]
                     /\ err = preErr

\* A set with a value was parsed and a further token follows its semicolon.
C9_Witness ==
    /\ CalledParseExpr /\ typ(pre) = TokenIdent /\ tok(pre) = strSet
    /\ At(pre.buf, pre.off + 3, TokenSemicolon)
    /\ ret = SetExpr(<<"a">>, <<"b">>)
    /\ scanner.off = pre.off + 4 /\ scanner.off <= Len(scanner.buf)

\* C10: on a name followed by n >= 0 tokens and a semicolon parseExpr()
\* returns CallExpr{name, args} with args the texts of exactly those n tokens
\* in source order, and leaves the scanner on the token right behind the
\* semicolon.
C10_CallCollectsArgs ==
    (CalledParseExpr /\ pre.off <= Len(pre.buf) /\ IsName(pre.buf[pre.off]))
        => LET buf == pre.buf
               i == pre.off
               j == FirstSemicolon(buf, i + 1)
           IN  j <= Len(buf) =>
                  /\ ret = CallExpr(buf[i].tok,
                                    [k \in 1..(j - i - 1) |-> buf[i + k].tok])
                  /\ scanner = [pre EXCEPT !.off = j + 1]
                  /\ err = preErr

\* A call with two different arguments was parsed and a further token
\* follows its semicolon.
C10_Witness ==
    /\ CalledParseExpr /\ pre.off <= Len(pre.buf) /\ IsName(pre.buf[pre.off])
    /\ At(pre.buf, pre.off + 3, TokenSemicolon)
    /\ ret = CallExpr(<<"a">>, << <<"a">>, <<"b">> >>)
    /\ scanner.off = pre.off + 4 /\ scanner.off <= Len(scanner.buf)

----------------------------------------------------------------------------
\* The Expr the grammar gives the expression that starts at offset i of buf
\* (which matchExpr recognises there), and the offset behind it.
endOf(buf, i) == CHOOSE j \in matchExpr(buf, i) : TRUE

\* The offset of the `}}` that closes the brace list whose first
\* sub-expression would start at offset i, or 0 when the list is malformed.
closeOf(buf, i) ==
    LET ks == { k \in matchMany(buf, i) :
                  At(buf, k, TokenRBraces) /\ At(buf, k + 1, TokenSemicolon) }
    IN  IF ks = {} THEN 0 ELSE CHOOSE k \in ks : TRUE

RECURSIVE astOf(_, _)
RECURSIVE astMany(_, _, _)

astOf(buf, i) ==
    IF matchSet(buf, i) # {}
    THEN SetExpr(buf[i + 1].tok,
                 IF At(buf, i + 2, TokenSemicolon) THEN <<>>
                 ELSE buf[i + 2].tok)
    ELSE IF matchCall(buf, i) # {}
    THEN CallExpr(buf[i].tok,
                  [k \in 1..(endOf(buf, i) - i - 2) |-> buf[i + k].tok])
    ELSE IF matchExec(buf, i) # {}
    THEN ExecExpr(buf[i].tok,
                  IF At(buf, i + 1, TokenLBraces) THEN buf[i + 2].tok
                  ELSE buf[i + 1].tok)
    ELSE IF matchBinding(buf, i) # {}
    THEN IF buf[i].tok = strMap
         THEN MapExpr(buf[i + 1].tok, astOf(buf, i + 2))
         ELSE CmdExpr(buf[i + 1].tok, astOf(buf, i + 2))
    ELSE IF At(buf, i + 1, TokenLBraces)
    THEN ListExpr(astMany(buf, i + 2, closeOf(buf, i + 2)))
    ELSE ListExpr(<<astOf(buf, i + 1)>>)

\* The Exprs of the expressions that fill the offsets i .. k - 1 of buf.
astMany(buf, i, k) ==
    IF i >= k THEN <<>>
    ELSE <<astOf(buf, i)>> \o astMany(buf, endOf(buf, i), k)

\* s stands on the colon of a brace list `: {{ e1 ... en }} ;` of n >= 1
\* well-formed sub-expressions.
BraceList(s) ==
    /\ typ(s) = TokenColon
    /\ At(s.buf, s.off + 1, TokenLBraces)
    /\ closeOf(s.buf, s.off + 2) > s.off + 2

\* C11: on a brace list of n >= 1 well-formed sub-expressions parseExpr()
\* returns the ListExpr of exactly their Exprs in source order and leaves the
\* scanner on the token behind the trailing semicolon.
C11_BraceListBody ==
    (CalledParseExpr /\ BraceList(pre))
        => LET buf == pre.buf
               i == pre.off
               k == closeOf(buf, i + 2)
           IN  /\ ret = ListExpr(astMany(buf, i + 2, k))
               /\ scanner = [pre EXCEPT !.off = k + 2]
               /\ err = preErr

----------------------------------------------------------------------------
\* The maximal runs of digits and of non-digits of cs, in order.
RECURSIVE runsOf(_)
runsOf(cs) ==
    IF cs = <<>> THEN <<>>
    ELSE LET d == IsDigit(cs[1])
             j == Least(cs, { k \in 1..Len(cs) : IsDigit(cs[k]) # d })
         IN  <<SubSeq(cs, 1, j - 1)>> \o runsOf(SubSeq(cs, j, Len(cs)))

IsDigitRun(r) == IsDigit(r[1])
IsRestRun(r) == ~IsDigit(r[1])

\* C12: extractNums loses no run: nums holds the value of every maximal
\* digit run and rest every maximal non-digit run, each in order, and
\* numFirst says whether the first run is a digit run.
C12_ExtractNumsKeepsRuns ==
    op = "extractNums"
        => LET runs == runsOf(str)
               dr == SelectSeq(runs, IsDigitRun)
           IN  /\ nums = [k \in 1..Len(dr) |-> Atoi(dr[k])]
               /\ rest = SelectSeq(runs, IsRestRun)
               /\ numFirst = (runs # <<>> /\ IsDigitRun(runs[1]))

----------------------------------------------------------------------------
\* s stands on a colon that is followed by one well-formed set, call or exec
\* expression, its terminator included.
LineListOfOne(s) ==
    /\ typ(s) = TokenColon
    /\ matchSet(s.buf, s.off + 1) \cup matchCall(s.buf, s.off + 1)
         \cup matchExec(s.buf, s.off + 1) # {}

\* C13 as stated: when the terminator of that one expression is a newline
\* marker and EndOfInput follows it, parseExpr() returns the ListExpr of
\* exactly that expression.
C13_LineListSingleNewline ==
    (/\ CalledParseExpr /\ LineListOfOne(pre) /\ ~pre.unterminated
     /\ endOf(pre.buf, pre.off + 1) = Len(pre.buf) + 1
     /\ IsNewline(pre.buf, Len(pre.buf)))
        => ret = ListExpr(<<astOf(pre.buf, pre.off + 1)>>)

\* C13: when a newline marker follows that one expression and its
\* terminator, parseExpr() returns the ListExpr of exactly that expression:
\* the loop stops on the newline marker, which is then consumed.  When the
\* expression's terminator is the only newline marker and EndOfInput follows
\* it, parseExpr() returns nil.
C13_LineListNewlineFollows ==
    (CalledParseExpr /\ LineListOfOne(pre))
        => LET buf == pre.buf
               j == endOf(buf, pre.off + 1)
           IN  /\ IsNewline(buf, j) =>
                     /\ ret = ListExpr(<<astOf(buf, pre.off + 1)>>)
                     /\ scanner = [pre EXCEPT !.off = j + 1]
                     /\ err = preErr
               /\ (j = Len(buf) + 1 /\ IsNewline(buf, Len(buf))
                   /\ ~pre.unterminated) => ret = Nil

\* A line list of one line-form exec was parsed and EndOfInput follows.
C13_Witness ==
    /\ CalledParseExpr /\ LineListOfOne(pre)
    /\ IsNewline(pre.buf, endOf(pre.buf, pre.off + 1))
    /\ ret = ListExpr(<<ExecExpr(<<"$">>, <<"x">>)>>)
    /\ IsNewline(pre.buf, pre.off + 3)
    /\ typ(scanner) = TokenEOF

----------------------------------------------------------------------------
\* The exec `Prefix {{ CommandText }} ;` / `Prefix CommandText <newline>`
\* starts at offset i of buf.
ExecBraces(buf, i) ==
    /\ At(buf, i, TokenPrefix) /\ At(buf, i + 1, TokenLBraces)
    /\ At(buf, i + 2, TokenCommand) /\ At(buf, i + 3, TokenRBraces)
    /\ At(buf, i + 4, TokenSemicolon)

ExecLine(buf, i) ==
    /\ At(buf, i, TokenPrefix) /\ At(buf, i + 1, TokenCommand)
    /\ IsNewline(buf, i + 2)

\* C14: an exec consumes exactly its own tokens: parseExpr() returns
\* ExecExpr{prefix text, command text} and leaves the scanner on the first
\* token behind the closing `;` or newline marker, so that `cmd <name>`
\* followed by an exec gives CmdExpr{name, ExecExpr}.
C14_ExecConsumesOwnTokens ==
    CalledParseExpr
        => LET buf == pre.buf
               i == pre.off
           IN  /\ ExecBraces(buf, i) =>
                     /\ ret = ExecExpr(buf[i].tok, buf[i + 2].tok)
                     /\ scanner = [pre EXCEPT !.off = i + 5]
                     /\ err = preErr
               /\ ExecLine(buf, i) =>
                     /\ ret = ExecExpr(buf[i].tok, buf[i + 1].tok)
                     /\ scanner = [pre EXCEPT !.off = i + 3]
                     /\ err = preErr
               /\ (/\ IsWord(buf, i) /\ buf[i].tok = strCmd
                   /\ IsWord(buf, i + 1) /\ ExecBraces(buf, i + 2)) =>
                     /\ ret = CmdExpr(buf[i + 1].tok,
                                      ExecExpr(buf[i + 2].tok, buf[i + 4].tok))
                     /\ scanner = [pre EXCEPT !.off = i + 7]
               /\ (/\ IsWord(buf, i) /\ buf[i].tok = strCmd
                   /\ IsWord(buf, i + 1) /\ ExecLine(buf, i + 2)) =>
                     /\ ret = CmdExpr(buf[i + 1].tok,
                                      ExecExpr(buf[i + 2].tok, buf[i + 3].tok))
                     /\ scanner = [pre EXCEPT !.off = i + 5]

\* `cmd a $ x <newline>` was parsed and a further statement follows it.
C14_Witness ==
    /\ CalledParseExpr /\ typ(pre) = TokenIdent /\ tok(pre) = strCmd
    /\ ExecLine(pre.buf, pre.off + 2)
    /\ ret = CmdExpr(<<"a">>, ExecExpr(<<"$">>, <<"x">>))
    /\ scanner.off = pre.off + 5 /\ scanner.off <= Len(scanner.buf)

----------------------------------------------------------------------------
\* C15: success and failure exclude each other: a call during which the
\* parser's error was set returns no Expr, and parse() returns false.
C15_ErrorExcludesSuccess ==
    (/\ CalledParseExpr \/ CalledParse
     /\ ~preErr /\ err)
        => (Failed /\ Produced = Nil)

\* Every ExecExpr of e has the text of a command-text token of buf as its
\* text.
RECURSIVE ExecTextsFrom(_, _)
ExecTextsFrom(e, buf) ==
    CASE e.kind = "ExecExpr" ->
            \E k \in 1..Len(buf) :
                buf[k].typ = TokenCommand /\ buf[k].tok = e.expr
      [] e.kind \in {"MapExpr", "CmdExpr"} -> ExecTextsFrom(e.expr, buf)
      [] e.kind = "ListExpr" ->
            \A n \in 1..Len(e.exprs) : ExecTextsFrom(e.exprs[n], buf)
      [] OTHER -> TRUE

\* C16: every ExecExpr parseExpr() returns has the text of a command-text
\* token of the input as its text.
C16_ExecTextIsCommandText ==
    CalledParseExpr => ExecTextsFrom(ret, pre.buf)

\* Every ListExpr of e has a non-empty body without nil elements.
RECURSIVE ListsFilled(_)
ListsFilled(e) ==
    CASE e.kind = "ListExpr" ->
            /\ e.exprs # <<>>
            /\ \A n \in 1..Len(e.exprs) :
                  e.exprs[n] # Nil /\ ListsFilled(e.exprs[n])
      [] e.kind \in {"MapExpr", "CmdExpr"} -> ListsFilled(e.expr)
      [] OTHER -> TRUE

\* The token at offset i of buf is one on which parseExpr() returns nil.
StartsNoExpr(buf, i) ==
    i > Len(buf)
    \/ buf[i].typ \in {TokenSemicolon, TokenLBraces, TokenRBraces, TokenCommand}

----------------------------------------------------------------------------
\* Top-level statements: set, call, brace-form exec and brace-form list, each
\* with its terminator.  matchStmt gives the offsets behind the statement
\* that starts at offset i of buf, stmtStarts the offsets from i on at which
\* the statements of a script start (the offset behind the last included).
matchStmt(buf, i) ==
    matchSet(buf, i) \cup matchCall(buf, i)
    \cup (IF ExecBraces(buf, i) THEN {i + 5} ELSE {})
    \cup (IF /\ At(buf, i, TokenColon) /\ At(buf, i + 1, TokenLBraces)
             /\ closeOf(buf, i + 2) # 0
          THEN {closeOf(buf, i + 2) + 2} ELSE {})

RECURSIVE stmtStarts(_, _)
stmtStarts(buf, i) ==
    {i} \cup UNION { stmtStarts(buf, j) : j \in matchStmt(buf, i) }

\* The input is a script of such statements up to its clean end.
IsScript(s) ==
    /\ ~s.unterminated
    /\ (Len(s.buf) + 1) \in stmtStarts(s.buf, 1)

\* C19: on a script of top-level statements every parseExpr() call that
\* starts on the first token of a statement returns the Expr of that
\* statement and leaves the scanner on the first token of the next one, and
\* the call at the end of the script returns nil, sets no error and changes
\* nothing.
C19_StatementsInOrder ==
    (CalledParseExpr /\ IsScript(pre) /\ pre.off \in stmtStarts(pre.buf, 1))
        => IF pre.off > Len(pre.buf)
           THEN ret = Nil /\ err = preErr /\ scanner = pre
           ELSE /\ ret = astOf(pre.buf, pre.off)
                /\ scanner = [pre EXCEPT !.off = endOf(pre.buf, pre.off)]
                /\ err = preErr

----------------------------------------------------------------------------
\* One iteration of the argument loop or of a list loop ends the loop (the
\* frame of the loop returns) or has moved the cursor forward.
LoopStepAdvances ==
    (ArgStep \/ ListStep)
        => \/ Len(run'.stack) < Len(run.stack)
           \/ IF Top(run).kind = "args"
              THEN run'.s.off > run.s.off
              ELSE run.s.off > Top(run).at

\* C18: parseExpr() terminates on every finite token stream: every call that
\* is made returns to the owner, and each iteration of the argument loop and
\* of the two list loops either advances the cursor by at least one token or
\* ends the loop.
C18_Terminates ==
    /\ run.active ~> ~run.active
    /\ [][LoopStepAdvances]_vars

\* A call returned a brace list with a call of two arguments in it, so that
\* the list loop and the argument loop both went round.
C18_Witness ==
    /\ ~run.active /\ CalledParseExpr
    /\ ret.kind = "ListExpr" /\ Len(ret.exprs) = 2
    /\ \E n \in 1..2 :
          ret.exprs[n].kind = "CallExpr" /\ ret.exprs[n].args # <<>>

====
